---- MODULE Spec2Model ----
(***************************************************************************)
(* Model of src/app.py: the request dispatcher make_api_call, the          *)
(* presenter display_comparison_results, and the three button handlers of  *)
(* the script, run once per widget interaction.                            *)
(*                                                                         *)
(* Conventions.                                                            *)
(*  - A Python string whose characters matter (the model's content) is a   *)
(*    sequence of one-character strings; identifiers and messages that are *)
(*    only passed around are TLA+ strings.                                 *)
(*  - Elapsed time is a whole number of seconds, 0 .. MaxElapsed.  The     *)
(*    wall clock is taken not to run backwards during a call.              *)
(*  - A Python evaluation that may raise yields Ok(v) or Raise(e).         *)
(***************************************************************************)
EXTENDS Integers, Sequences, FiniteSets, TLC

\* Largest elapsed time (seconds) a call is observed to take.
MaxElapsed == 2

---------------------------------------------------------------------------
(* Python values and exceptions *)

Ok(v) == [ok |-> TRUE, v |-> v]

Raise(e) == [ok |-> FALSE, exc |-> e]

\* Decoded JSON values, tagged by their Python type.
JNull == [t |-> "null"]

JNum(n) == [t |-> "num", n |-> n]

JBool(b) == [t |-> "bool", b |-> b]

JStr(s) == [t |-> "str", s |-> s]

JList(l) == [t |-> "list", l |-> l]

JObj(o) == [t |-> "obj", o |-> o]

\* x[key] for a string key: dict lookup; every other type raises TypeError.
GetItemKey(x, key) ==
    IF x.t = "obj"
    THEN IF key \in DOMAIN x.o THEN Ok(x.o[key]) ELSE Raise("KeyError")
    ELSE Raise("TypeError")

\* x[0]: first element of a list or first character of a str; a decoded JSON
\* dict has only string keys, so 0 is never one of them.
GetItem0(x) ==
    CASE x.t = "list" -> IF Len(x.l) > 0 THEN Ok(x.l[1]) ELSE Raise("IndexError")
      [] x.t = "str"  -> IF Len(x.s) > 0 THEN Ok(JStr(<<x.s[1]>>)) ELSE Raise("IndexError")
      [] x.t = "obj"  -> Raise("KeyError")
      [] OTHER        -> Raise("TypeError")

\* bool(x): None, 0, False and empty str/list/dict are falsy.
Truthy(x) ==
    CASE x.t = "null" -> FALSE
      [] x.t = "num"  -> x.n # 0
      [] x.t = "bool" -> x.b
      [] x.t = "str"  -> Len(x.s) > 0
      [] x.t = "list" -> Len(x.l) > 0
      [] x.t = "obj"  -> DOMAIN x.o # {}

---------------------------------------------------------------------------
(* Python str methods *)

Whitespace == {" ", "\t", "\n"}

\* s.strip() == ""
StripIsEmpty(s) == \A i \in 1..Len(s) : s[i] \in Whitespace

\* len(s.split()): the number of maximal runs of non-whitespace characters.
SplitCount(s) ==
    Cardinality({i \in 1..Len(s) :
        /\ s[i] \notin Whitespace
        /\ (i = 1 \/ s[i-1] \in Whitespace)})

\* "[Empty response from model]"
Placeholder ==
    << "[","E","m","p","t","y"," ","r","e","s","p","o","n","s","e"," ",
       "f","r","o","m"," ","m","o","d","e","l","]" >>

---------------------------------------------------------------------------
(* Arithmetic on the floats the program computes *)

RECURSIVE GCD(_, _)
GCD(a, b) == IF b = 0 THEN a ELSE GCD(b, a % b)

\* The float n / d (d > 0), kept exact as a reduced fraction.
Ratio(n, d) == [num |-> n \div GCD(n, d), den |-> d \div GCD(n, d)]

\* f"{x:.1f}" for x = n / d >= 0: x in tenths, rounded to nearest, ties to even.
Format1f(n, d) ==
    LET q == (10 * n) \div d
        r == (10 * n) % d
    IN  IF 2 * r < d THEN q
        ELSE IF 2 * r > d THEN q + 1
        ELSE q + (q % 2)

---------------------------------------------------------------------------
(* Request Dispatcher: make_api_call *)

\* response.json(): a body that holds JSON text decodes to its value, any
\* other body raises the library's JSON decode error.
ResponseJson(text) ==
    IF "enc" \in DOMAIN text THEN Ok(text.enc) ELSE Raise("JSONDecodeError")

\* result['choices'][0]['message']['content']
ExtractContent(result) ==
    LET choices == GetItemKey(result, "choices") IN
    IF ~choices.ok THEN choices ELSE
    LET first == GetItem0(choices.v) IN
    IF ~first.ok THEN first ELSE
    LET message == GetItemKey(first.v, "message") IN
    IF ~message.ok THEN message ELSE
    GetItemKey(message.v, "content")

\* SubstituteEmpty without the strip() test: only a falsy content takes the
\* placeholder.
SubstituteEmpty_NoStrip(content) ==
    IF ~Truthy(content) THEN Ok(Placeholder)
    ELSE IF content.t # "str" THEN Raise("AttributeError")
    ELSE Ok(content.s)

\* if not content or content.strip() == "": content = "[Empty response from model]"
\* A falsy content of any type takes the placeholder; a truthy content that
\* is not a str has no strip method.
SubstituteEmpty(content) ==
    IF ~Truthy(content) THEN Ok(Placeholder)
    ELSE IF content.t # "str" THEN Raise("AttributeError")
    ELSE IF StripIsEmpty(content.s) THEN Ok(Placeholder)
    ELSE Ok(content.s)

\* len(content.split()) / response_time if response_time > 0 else 0
WordsPerSecond(content, response_time) ==
    IF response_time > 0 THEN Ratio(SplitCount(content), response_time)
    ELSE Ratio(0, 1)

\* The record returned at the end of the inner try block.
SuccessResult(content, response_time, result) ==
    [ success          |-> TRUE,
      content          |-> content,
      response_time    |-> response_time,
      word_count       |-> SplitCount(content),
      char_count       |-> Len(content),
      words_per_second |-> WordsPerSecond(content, response_time),
      raw_response     |-> result ]

\* except (KeyError, IndexError, TypeError) as e
ParseFailure(e, response_time, text) ==
    [ success       |-> FALSE,
      error         |-> [prefix |-> "Failed to parse response: ", exc |-> e],
      response_time |-> response_time,
      raw_response  |-> text ]

\* response.status_code != 200
HttpFailure(status_code, text, response_time) ==
    [ success       |-> FALSE,
      error         |-> [prefix |-> "Error ", status_code |-> status_code,
                         text |-> text],
      response_time |-> response_time,
      status_code   |-> status_code ]

\* RequestFailure without its response_time entry.
RequestFailure_NoTime(e) ==
    [ success |-> FALSE,
      error   |-> [prefix |-> "Request failed: ", exc |-> e] ]

\* except requests.exceptions.RequestException as e
RequestFailure(e) ==
    [ success       |-> FALSE,
      error         |-> [prefix |-> "Request failed: ", exc |-> e],
      response_time |-> 0 ]

\* The exception types the inner handler catches.
ParseErrors == {"KeyError", "IndexError", "TypeError"}

\* Whether the outer handler catches e.  The library's JSON decode error is
\* a RequestException in requests 2.27 and later and a plain ValueError
\* before; json_error_base says which library the build runs.
IsRequestException(e, json_error_base) ==
    \/ e = "ConnectionError"
    \/ e = "JSONDecodeError" /\ json_error_base = "RequestException"

\* The status-200 branch: the inner try block and its handler; what neither
\* returns nor is caught there propagates to the outer handler.
Parse200(text, response_time) ==
    LET decoded == ResponseJson(text) IN
    IF ~decoded.ok THEN decoded ELSE
    LET extracted == ExtractContent(decoded.v) IN
    IF ~extracted.ok
    THEN IF extracted.exc \in ParseErrors
         THEN Ok(ParseFailure(extracted.exc, response_time, text))
         ELSE extracted
    ELSE
    LET content == SubstituteEmpty(extracted.v) IN
    IF ~content.ok
    THEN IF content.exc \in ParseErrors
         THEN Ok(ParseFailure(content.exc, response_time, text))
         ELSE content
    ELSE Ok(SuccessResult(content.v, response_time, decoded.v))

\* The body of the outer try block, given what requests.post did: it raised
\* (post.raised) or returned a response after post.elapsed seconds.
TryBlock(post) ==
    IF post.raised THEN Raise("ConnectionError")
    ELSE IF post.status_code = 200 THEN Parse200(post.text, post.elapsed)
    ELSE Ok(HttpFailure(post.status_code, post.text, post.elapsed))

\* make_api_call: Ok(record) when it returns, Raise(e) when e escapes it.
make_api_call(post, json_error_base) ==
    LET r == TryBlock(post) IN
    IF r.ok THEN r
    ELSE IF IsRequestException(r.exc, json_error_base)
         THEN Ok(RequestFailure(r.exc))
         ELSE r

---------------------------------------------------------------------------
(* Result Presenter: display_comparison_results *)

\* The catalog both model pickers offer.
Models == {"qwen/qwen3-32b", "qwen/qwen3-14b", "anthropic/claude-3-haiku"}

\* model_name.split('/')[-1].upper()
ModelTitle(model_name) ==
    CASE model_name = "qwen/qwen3-32b"           -> "QWEN3-32B"
      [] model_name = "qwen/qwen3-14b"           -> "QWEN3-14B"
      [] model_name = "anthropic/claude-3-haiku" -> "CLAUDE-3-HAIKU"

\* The first key of model_icons contained in model_name.lower().
get_model_icon(model_name) ==
    CASE model_name = "qwen/qwen3-32b"           -> "[QWEN]"
      [] model_name = "qwen/qwen3-14b"           -> "[QWEN]"
      [] model_name = "anthropic/claude-3-haiku" -> "[CLAUDE]"
      [] OTHER                                   -> "[AI]"

\* result.get("raw_response", "No debug info available")
DebugText(result) ==
    IF "raw_response" \in DOMAIN result
    THEN [raw |-> result.raw_response]
    ELSE [default |-> "No debug info available"]

\* The st.error branch of one outcome, with its Debug Info expander.
ErrorElements(result, col) ==
    << [el |-> "error", col |-> col, error |-> result.error],
       [el |-> "debug_text", col |-> col, text |-> DebugText(result)] >>
    \o IF "status_code" \in DOMAIN result
       THEN << [el |-> "status_code", col |-> col,
                status_code |-> result.status_code] >>
       ELSE << >>

\* One column of the comparison: the outcome of one call.
ColumnElements(result, model_name, col) ==
    << [el |-> "subheader", col |-> col, icon |-> get_model_icon(model_name),
        title |-> ModelTitle(model_name)] >>
    \o IF result.success
       THEN << [el |-> "success", col |-> col,
                response_time |-> result.response_time] >>
            \o (IF result.content = Placeholder
                THEN << [el |-> "warning", col |-> col],
                        [el |-> "debug_json", col |-> col,
                         json |-> result.raw_response] >>
                ELSE << >>)
            \o << [el |-> "text_area", col |-> col, value |-> result.content] >>
       ELSE ErrorElements(result, col)

\* faster_model with <= for <.
faster_model_OrEqual(result1, result2, model1_name, model2_name) ==
    IF result1.response_time <= result2.response_time
    THEN model1_name
    ELSE model2_name

\* model1_name if result1["response_time"] < result2["response_time"] else model2_name
faster_model(result1, result2, model1_name, model2_name) ==
    IF result1.response_time < result2.response_time
    THEN model1_name
    ELSE model2_name

\* abs(result1["response_time"] - result2["response_time"])
time_diff(result1, result2) ==
    IF result1.response_time >= result2.response_time
    THEN result1.response_time - result2.response_time
    ELSE result2.response_time - result1.response_time

\* MaxTime with min for max.
MaxTime_Min(result1, result2) ==
    IF result1.response_time >= result2.response_time
    THEN result2.response_time
    ELSE result1.response_time

\* max(result1["response_time"], result2["response_time"])
MaxTime(result1, result2) ==
    IF result1.response_time >= result2.response_time
    THEN result1.response_time
    ELSE result2.response_time

\* (time_diff / max(...)) * 100, as the fraction num / den of a percentage;
\* a zero divisor raises.
speed_improvement(result1, result2) ==
    IF MaxTime(result1, result2) = 0
    THEN Raise("ZeroDivisionError")
    ELSE Ok([num |-> 100 * time_diff(result1, result2),
             den |-> MaxTime(result1, result2)])

\* One column of the Text Statistics section.
StatsElement(result, model_name, col) ==
    [ el     |-> "stats", col |-> col, title |-> ModelTitle(model_name),
      words  |-> result.word_count,
      chars  |-> result.char_count,
      wps_1f |-> Format1f(result.words_per_second.num,
                          result.words_per_second.den) ]

\* The block under `if result1["success"] and result2["success"]`.  The
\* section header is already on the page when the division is evaluated.
PerformanceComparison(result1, result2, model1_name, model2_name) ==
    LET improvement == speed_improvement(result1, result2) IN
    IF ~improvement.ok
    THEN [out |-> << [el |-> "perf_header"] >>, exc |-> improvement.exc]
    ELSE [out |->
            << [el |-> "perf_header"],
               [el |-> "model_time", col |-> 1,
                response_time |-> result1.response_time],
               [el |-> "model_time", col |-> 2,
                response_time |-> result2.response_time],
               [el |-> "faster_model",
                title |-> ModelTitle(faster_model(result1, result2,
                                                  model1_name, model2_name))],
               [el |-> "faster_badge",
                percent_1f |-> Format1f(improvement.v.num, improvement.v.den)],
               [el |-> "stats_header"],
               StatsElement(result1, model1_name, 1),
               StatsElement(result2, model2_name, 2) >>,
          exc |-> "none"]

\* display_comparison_results: what it puts on the page (out) and the
\* exception that ends it, if any (exc).
display_comparison_results(result1, result2, model1_name, model2_name) ==
    LET columns == << [el |-> "results_header"] >>
                   \o ColumnElements(result1, model1_name, 1)
                   \o ColumnElements(result2, model2_name, 2)
    IN  IF result1.success /\ result2.success
        THEN LET perf == PerformanceComparison(result1, result2,
                                               model1_name, model2_name)
             IN  [out |-> columns \o perf.out, exc |-> perf.exc]
        ELSE [out |-> columns, exc |-> "none"]

\* The rendering of a single test (both test branches share it).
TestResultElements(result, model_name) ==
    << [el |-> "test_header", title |-> ModelTitle(model_name)] >>
    \o IF result.success
       THEN << [el |-> "success", col |-> 0,
                response_time |-> result.response_time],
               [el |-> "text_area", col |-> 0, value |-> result.content],
               StatsElement(result, model_name, 0) >>
       ELSE ErrorElements(result, 0)

---------------------------------------------------------------------------
(* What the endpoint can answer *)

\* A response body of the expected shape around a given content value.
ChatBody(content) ==
    JObj([choices |-> JList(<< JObj([message |-> JObj([content |-> content])]) >>)])

\* A response text that is not JSON (raw: its characters).
PlainText == [raw |-> "rate limited"]

\* The JSON response texts the model draws from (enc: the value the text
\* encodes).
JsonTexts ==
    << [enc |-> ChatBody(JStr(<<"h","i">>))],
       [enc |-> ChatBody(JStr(<<"a"," ","b">>))],
       [enc |-> ChatBody(JStr(<< >>))],
       [enc |-> ChatBody(JStr(<<" ","\n">>))],
       [enc |-> ChatBody(JNull)],
       [enc |-> ChatBody(JNum(0))],
       [enc |-> ChatBody(JNum(5))],
       [enc |-> ChatBody(JList(<< >>))],
       [enc |-> ChatBody(JList(<< JStr(<<"h","i">>) >>))],
       [enc |-> JObj([choices |-> JList(<< JObj([message |-> JObj(<< >>)]) >>)])],
       [enc |-> JObj([choices |-> JList(<< JObj([message |-> JStr(<<"h","i">>)]) >>)])],
       [enc |-> JObj([choices |-> JList(<< JNull >>)])],
       [enc |-> JObj([choices |-> JList(<< >>)])],
       [enc |-> JObj([choices |-> JObj(<< >>)])],
       [enc |-> JObj([choices |-> JStr(<<"h","i">>)])],
       [enc |-> JObj([error |-> JStr(<<"h","i">>)])],
       [enc |-> JList(<< >>)],
       [enc |-> JNull] >>

\* The status codes the model draws from.
StatusCodes == {200, 429, 500}

\* A response with a status code and a text, received after e seconds.
Response(status_code, text, e) ==
    [raised |-> FALSE, status_code |-> status_code, text |-> text, elapsed |-> e]

\* What requests.post can do: raise a RequestException, or return a response
\* after some elapsed time: the plain text under any status, any JSON text
\* under status 200, the first JSON text under an error status.
PostOutcomes ==
    { [raised |-> TRUE] }
    \cup { Response(c, PlainText, e) : c \in StatusCodes, e \in 0..MaxElapsed }
    \cup { Response(200, JsonTexts[i], e) : i \in DOMAIN JsonTexts, e \in 0..MaxElapsed }
    \cup { Response(c, JsonTexts[1], e) : c \in StatusCodes \ {200}, e \in 0..MaxElapsed }

---------------------------------------------------------------------------
(* The script: one run per widget interaction *)

VARIABLES
    json_error_base,  \* base class of the library's JSON decode error
    pc,               \* where the current script run stands
    button,           \* the button this run was triggered by, or "none"
    prompt,           \* the prompt text area
    api_key,          \* the credential (secret or text input)
    model_1,          \* the first model picker
    model_2,          \* the second model picker
    calls,            \* make_api_call invocations in this run
    posts,            \* the POSTs issued in this run, in order
    responses,        \* what requests.post did for each of them, in order
    results,          \* the records make_api_call returned in this run
    screen,           \* the elements the handlers rendered in this run
    raised            \* the exception that ended this run, or "none"

vars == << json_error_base, pc, button, prompt, api_key, model_1, model_2,
           calls, posts, responses, results, screen, raised >>

compare_button == button = "compare"

test_model_1 == button = "test1"

test_model_2 == button = "test2"

Prompts == {"", "Say hi"}

ApiKeys == {"", "sk-or-key"}

\* The request a call sends.
Request(model, p) == [model |-> model, prompt |-> p]

\* The two validation messages at the end of the script.
ValidationMessages(b, p, k) ==
    (IF b # "none" /\ k = ""
     THEN << [el |-> "validation", message |-> "Please enter your OpenRouter API key in the sidebar"] >>
     ELSE << >>)
    \o
    (IF b # "none" /\ p = ""
     THEN << [el |-> "validation", message |-> "Please enter a prompt to test"] >>
     ELSE << >>)

\* HandlerGuard without the credential test.
HandlerGuard_PromptOnly(p, k) == p # ""

\* `<button> and prompt and api_key`
HandlerGuard(p, k) == p # "" /\ k # ""

\* The page as first loaded: no button pressed, the prompt empty, the pickers
\* at their default indices 0 and 1, the credential a secret or still empty.
Init ==
    /\ json_error_base \in {"RequestException", "ValueError"}
    /\ pc = "done"
    /\ button = "none"
    /\ prompt = ""
    /\ api_key \in ApiKeys
    /\ model_1 = "qwen/qwen3-32b"
    /\ model_2 = "qwen/qwen3-14b"
    /\ calls = 0
    /\ posts = << >>
    /\ responses = << >>
    /\ results = << >>
    /\ screen = << >>
    /\ raised = "none"

\* A widget interaction starts a new run of the script with the widgets'
\* values (b: the button pressed, if any).  The run proceeds to its first
\* POST, or to its end when no handler branch is taken.
StartRun(b, p, k, m1, m2) ==
    /\ pc = "done"
    /\ button' = b
    /\ prompt' = p
    /\ api_key' = k
    /\ model_1' = m1
    /\ model_2' = m2
    /\ responses' = << >>
    /\ results' = << >>
    /\ raised' = "none"
    /\ UNCHANGED json_error_base
    /\ IF b # "none" /\ HandlerGuard(p, k)
       THEN /\ calls' = 1
            /\ posts' = << Request(IF b = "test2" THEN m2 ELSE m1, p) >>
            /\ screen' = << >>
            /\ pc' = IF b = "compare" THEN "post1" ELSE "post"
       ELSE /\ calls' = 0
            /\ posts' = << >>
            /\ screen' = ValidationMessages(b, p, k)
            /\ pc' = "done"

\* The prompt is edited: a run in which every button reads False.
EditPrompt ==
    \E p \in Prompts \ {prompt} : StartRun("none", p, api_key, model_1, model_2)

\* The credential is typed into the sidebar.
EditApiKey ==
    \E k \in ApiKeys \ {api_key} : StartRun("none", prompt, k, model_1, model_2)

\* A model is picked.  Both test buttons are created without a key and
\* labelled by their model's title, so a run with model_1 = model_2 ends at
\* the second button and never reaches the handlers: such runs are left out.
SelectModel1 ==
    \E m \in Models \ {model_1, model_2} :
        StartRun("none", prompt, api_key, m, model_2)

SelectModel2 ==
    \E m \in Models \ {model_1, model_2} :
        StartRun("none", prompt, api_key, model_1, m)

\* "Compare Both Models" is clicked.
CompareBoth == StartRun("compare", prompt, api_key, model_1, model_2)

\* "Test <model 1>" is clicked.
TestModel1 == StartRun("test1", prompt, api_key, model_1, model_2)

\* "Test <model 2>" is clicked.
TestModel2 == StartRun("test2", prompt, api_key, model_1, model_2)

\* The run is ended by an exception no handler caught.
Abort(e) ==
    /\ raised' = e
    /\ pc' = "done"

\* Compare branch: the first call ends; the second call is made and its POST
\* issued.
FirstReturns ==
    /\ pc = "post1"
    /\ \E post \in PostOutcomes :
         LET r == make_api_call(post, json_error_base) IN
         /\ responses' = Append(responses, post)
         /\ IF r.ok
            THEN /\ results' = << r.v >>
                 /\ calls' = calls + 1
                 /\ posts' = Append(posts, Request(model_2, prompt))
                 /\ pc' = "post2"
                 /\ UNCHANGED << raised, screen >>
            ELSE /\ Abort(r.exc)
                 /\ UNCHANGED << results, calls, posts, screen >>
    /\ UNCHANGED << json_error_base, button, prompt, api_key, model_1, model_2 >>

\* Compare branch: the second call ends, the comparison is displayed, and
\* the script runs on to the validation messages.
SecondReturns ==
    /\ pc = "post2"
    /\ \E post \in PostOutcomes :
         LET r == make_api_call(post, json_error_base) IN
         /\ responses' = Append(responses, post)
         /\ IF r.ok
            THEN LET shown == display_comparison_results(results[1], r.v,
                                                         model_1, model_2)
                 IN  /\ results' = Append(results, r.v)
                     /\ raised' = shown.exc
                     /\ screen' = IF shown.exc = "none"
                                  THEN shown.out
                                       \o ValidationMessages(button, prompt, api_key)
                                  ELSE shown.out
                     /\ pc' = "done"
            ELSE /\ Abort(r.exc)
                 /\ UNCHANGED << results, screen >>
    /\ UNCHANGED << json_error_base, button, prompt, api_key, model_1, model_2,
                    calls, posts >>

\* Either test branch: the call ends and its result is rendered.
TestReturns ==
    /\ pc = "post"
    /\ \E post \in PostOutcomes :
         LET r == make_api_call(post, json_error_base) IN
         /\ responses' = Append(responses, post)
         /\ IF r.ok
            THEN /\ results' = << r.v >>
                 /\ screen' = TestResultElements(r.v, IF test_model_1 THEN model_1
                                                      ELSE model_2)
                              \o ValidationMessages(button, prompt, api_key)
                 /\ UNCHANGED raised
                 /\ pc' = "done"
            ELSE /\ Abort(r.exc)
                 /\ UNCHANGED << results, screen >>
    /\ UNCHANGED << json_error_base, button, prompt, api_key, model_1, model_2,
                    calls, posts >>

Next ==
    \/ EditPrompt
    \/ EditApiKey
    \/ SelectModel1
    \/ SelectModel2
    \/ CompareBoth
    \/ TestModel1
    \/ TestModel2
    \/ FirstReturns
    \/ SecondReturns
    \/ TestReturns

Spec == Init /\ [][Next]_vars

---------------------------------------------------------------------------
(* Vocabulary of the properties *)

\* The positions of the rendered elements of one kind.
Shown(kind) == {i \in DOMAIN screen : screen[i].el = kind}

\* The positions of the rendered elements of one kind in one column.
ShownIn(kind, col) == {i \in Shown(kind) : screen[i].col = col}

\* The text has the shape {choices: [{message: {content: <string>}}, ...]}.
ExpectedShape(text) ==
    /\ "enc" \in DOMAIN text
    /\ text.enc.t = "obj"
    /\ "choices" \in DOMAIN text.enc.o
    /\ text.enc.o.choices.t = "list"
    /\ Len(text.enc.o.choices.l) > 0
    /\ text.enc.o.choices.l[1].t = "obj"
    /\ "message" \in DOMAIN text.enc.o.choices.l[1].o
    /\ text.enc.o.choices.l[1].o.message.t = "obj"
    /\ "content" \in DOMAIN text.enc.o.choices.l[1].o.message.o
    /\ text.enc.o.choices.l[1].o.message.o.content.t = "str"

\* The content string of a text of the expected shape.
ContentOf(text) == text.enc.o.choices.l[1].o.message.o.content.s

\* The i-th POST of the run was answered with status 200.
Answered200(i) == ~responses[i].raised /\ responses[i].status_code = 200

\* A finished compare run in which both calls returned a record.
ComparisonDone == pc = "done" /\ button = "compare" /\ Len(results) = 2

BothSucceeded == results[1].success /\ results[2].success

\* The record is a Success: every Success field and no error field.
IsSuccessVariant(r) ==
    /\ r.success = TRUE
    /\ {"content", "word_count", "char_count", "words_per_second",
        "raw_response"} \subseteq DOMAIN r
    /\ "error" \notin DOMAIN r

\* The record is a Failure: an error message and no content field.
IsFailureVariant(r) ==
    /\ r.success = FALSE
    /\ "error" \in DOMAIN r
    /\ "content" \notin DOMAIN r

---------------------------------------------------------------------------
(* Properties *)

\* C1: make_api_call lets no fault escape: whatever requests.post did
\* (raised, any status, any body), the call returned a record, so every
\* response received in a run has its record and no run was ended by an
\* exception coming out of the call.
C1_NoFaultEscapes ==
    /\ Len(results) = Len(responses)
    /\ raised \notin {"AttributeError", "JSONDecodeError"}

\* C2: display_comparison_results never throws: once both calls of a compare
\* run have returned their records, the run ends without an exception.
C2_PresenterNeverThrows ==
    ComparisonDone => raised = "none"

\* C3 as stated: with two Success results of equal elapsed time, whatever is
\* reported as the faster model is model 1 and whatever is reported as the
\* improvement is 0.0%.
C3_TieReportsFirstModel ==
    (ComparisonDone /\ BothSucceeded
        /\ results[1].response_time = results[2].response_time)
    => /\ \A i \in Shown("faster_model") : screen[i].title = ModelTitle(model_1)
       /\ \A i \in Shown("faster_badge") : screen[i].percent_1f = 0

\* C3 as amended: with two Success results of equal elapsed time, whatever
\* is reported as the faster model is model 2 and whatever is reported as
\* the improvement is 0.0%, and both are reported whenever the equal times
\* are not zero.
C3_TieReportsSecondModel ==
    (ComparisonDone /\ BothSucceeded
        /\ results[1].response_time = results[2].response_time)
    => /\ \A i \in Shown("faster_model") : screen[i].title = ModelTitle(model_2)
       /\ \A i \in Shown("faster_badge") : screen[i].percent_1f = 0
       /\ results[1].response_time > 0
            => Shown("faster_model") # {} /\ Shown("faster_badge") # {}

\* A tie at a non-zero elapsed time has been compared and reported.
C3_Witness ==
    /\ ComparisonDone /\ BothSucceeded
    /\ results[1].response_time = 1 /\ results[2].response_time = 1
    /\ Shown("faster_model") # {}

\* C4: a button pressed with an empty prompt or an absent credential makes
\* no call and no POST and shows the validation message of what is missing;
\* a call is made only in a run whose prompt and credential are both
\* non-empty.
C4_ValidationBlocksDispatch ==
    /\ (button # "none" /\ (prompt = "" \/ api_key = ""))
       => /\ calls = 0
          /\ posts = << >>
          /\ Shown("validation") # {}
          /\ api_key = "" => \E i \in Shown("validation") :
                screen[i].message = "Please enter your OpenRouter API key in the sidebar"
          /\ prompt = "" => \E i \in Shown("validation") :
                screen[i].message = "Please enter a prompt to test"
    /\ (calls > 0 \/ posts # << >>) => (prompt # "" /\ api_key # "")

\* A button was pressed with the prompt empty and the credential present.
C4_Witness ==
    /\ button = "compare" /\ prompt = "" /\ api_key # ""
    /\ pc = "done" /\ Shown("validation") # {}

\* The performance-comparison section is on the page in full.
PerformanceSectionShown ==
    /\ Shown("faster_model") # {}
    /\ Shown("faster_badge") # {}
    /\ ShownIn("stats", 1) # {}
    /\ ShownIn("stats", 2) # {}

\* Some part of the performance-comparison section is on the page.
PerformanceSectionStarted ==
    \E kind \in {"perf_header", "model_time", "faster_model", "faster_badge",
                 "stats_header", "stats"} : Shown(kind) # {}

\* C5: in a paired comparison both outcomes are rendered (the text on
\* Success, the error on Failure), and the performance-comparison section is
\* rendered exactly when both results are Success and otherwise not at all.
C5_SectionIffBothSucceeded ==
    ComparisonDone =>
      /\ \A c \in {1, 2} :
           IF results[c].success
           THEN \E i \in ShownIn("text_area", c) : screen[i].value = results[c].content
           ELSE \E i \in ShownIn("error", c) : screen[i].error = results[c].error
      /\ BothSucceeded => PerformanceSectionShown
      /\ ~BothSucceeded => ~PerformanceSectionStarted

\* C6: every status-200 response whose body is not of the expected shape
\* gives a Failure that describes the parse failure, carries the measured
\* elapsed time and carries the raw response text.
C6_MalformedBodyIsParseFailure ==
    \A i \in DOMAIN responses :
      (Answered200(i) /\ ~ExpectedShape(responses[i].text))
      => /\ i \in DOMAIN results
         /\ results[i].success = FALSE
         /\ results[i].error.prefix = "Failed to parse response: "
         /\ results[i].response_time = responses[i].elapsed
         /\ "raw_response" \in DOMAIN results[i]
         /\ results[i].raw_response = responses[i].text

\* C7: every record make_api_call returned is exactly one of the two
\* variants and carries an elapsed time, which is 0 for a request that
\* failed at network level.
C7_ExactlyOneVariant ==
    \A i \in DOMAIN results :
      /\ IsSuccessVariant(results[i]) # IsFailureVariant(results[i])
      /\ "response_time" \in DOMAIN results[i]
      /\ responses[i].raised
           => IsFailureVariant(results[i]) /\ results[i].response_time = 0

\* A run returned a Success and then a network-level Failure.
C7_Witness ==
    /\ Len(results) = 2
    /\ IsSuccessVariant(results[1])
    /\ responses[2].raised /\ IsFailureVariant(results[2])

\* C8: with two Success results of different elapsed times, the model
\* reported as faster is the one with the lower time, in either position,
\* and the reported improvement is |t1 - t2| / max(t1, t2) * 100 to one
\* decimal (1s against 2s: 50.0%).
C8_FasterModelAndImprovement ==
    (ComparisonDone /\ BothSucceeded
        /\ results[1].response_time # results[2].response_time)
    => LET t1 == results[1].response_time
           t2 == results[2].response_time
           hi == IF t1 > t2 THEN t1 ELSE t2
           lo == IF t1 > t2 THEN t2 ELSE t1
       IN  /\ Shown("faster_model") # {}
           /\ \A i \in Shown("faster_model") :
                screen[i].title = ModelTitle(IF t1 < t2 THEN model_1 ELSE model_2)
           /\ Shown("faster_badge") # {}
           /\ \A i \in Shown("faster_badge") :
                LET shown == screen[i].percent_1f
                    exact == 1000 * (hi - lo)
                    off   == IF shown * hi >= exact THEN shown * hi - exact
                             ELSE exact - shown * hi
                IN  /\ 2 * off <= hi
                    /\ (lo = 1 /\ hi = 2) => shown = 500

\* The faster model is in the second position: 2s against 1s.
C8_Witness ==
    /\ ComparisonDone /\ BothSucceeded
    /\ results[1].response_time = 2 /\ results[2].response_time = 1
    /\ \E i \in Shown("faster_model") : screen[i].title = ModelTitle(model_2)

\* C9: a status-200 response of the expected shape whose content is empty
\* or only whitespace gives a Success whose text is the placeholder, with
\* the placeholder's 4 words and 27 characters and 4 / elapsed words per
\* second (0 when the elapsed time is 0).
C9_EmptyContentIsPlaceholder ==
    \A i \in DOMAIN responses :
      (/\ Answered200(i)
       /\ ExpectedShape(responses[i].text)
       /\ \A j \in DOMAIN ContentOf(responses[i].text) :
            ContentOf(responses[i].text)[j] \in {" ", "\t", "\n"})
      => /\ i \in DOMAIN results
         /\ results[i].success = TRUE
         /\ results[i].content = Placeholder
         /\ results[i].word_count = 4
         /\ results[i].char_count = 27
         /\ IF responses[i].elapsed > 0
            THEN results[i].words_per_second.num * responses[i].elapsed
                   = 4 * results[i].words_per_second.den
            ELSE results[i].words_per_second.num = 0

\* A whitespace-only content was answered after one second.
C9_Witness ==
    \E i \in DOMAIN results :
      /\ Answered200(i)
      /\ ExpectedShape(responses[i].text)
      /\ ContentOf(responses[i].text) = <<" ", "\n">>
      /\ responses[i].elapsed = 1
      /\ results[i].content = Placeholder

\* C10: a run takes at most one handler branch; each call issues one POST,
\* once; a compare run issues exactly two, the second only after the first
\* returned and whatever the first gave; a test run issues exactly one; and
\* nothing of the results is rendered before every call of the run returned.
C10_OneOrTwoSequentialPosts ==
    /\ Len(posts) = calls
    /\ Len(posts) <= 2
    /\ Len(responses) <= Len(posts)
    /\ Len(posts) = 2 => Len(responses) >= 1
    /\ (pc = "done" /\ button = "compare" /\ prompt # "" /\ api_key # "")
         => Len(posts) = 2 /\ posts[1].model = model_1 /\ posts[2].model = model_2
    /\ (pc = "done" /\ button = "test1" /\ prompt # "" /\ api_key # "")
         => Len(posts) = 1 /\ posts[1].model = model_1
    /\ (pc = "done" /\ button = "test2" /\ prompt # "" /\ api_key # "")
         => Len(posts) = 1 /\ posts[1].model = model_2
    /\ pc # "done" => screen = << >>

====
